---- MODULE Spec2Model ----
(***************************************************************************)
(* Options-analytics pipeline of streamlit_app.py: the chain normalizer    *)
(* (get_options_data), the sentiment ratios, the Black-Scholes Greeks and   *)
(* the script that runs them in order for one ticker.                       *)
(*                                                                         *)
(* A table (pandas DataFrame) is a sequence of rows; a row is a record of   *)
(* its columns.  A float64 is an extended rational [k, n, d]: k = "fin"     *)
(* with the value n/d in lowest terms, k = "inf" with the sign in n, or     *)
(* k = "nan".  The sign of a zero is not modelled.                          *)
(***************************************************************************)
EXTENDS Integers, Sequences, FiniteSets, TLC

VARIABLES
    ticker,          \* the ticker typed by the user (sequence of characters)
    now,             \* pd.Timestamp.today(): [date, hour]
    chain,           \* chain source: sequence of [date, calls, puts]
    price_src,       \* price source: [intraday, daily] sequences of closes
    pc,              \* position of the script
    error,           \* the exception that ended the script and the call that raised it
    options_data,    \* the table returned by get_options_data
    last_price,      \* the price returned by get_options_data
    call_put_ratio,  \* results of calculate_call_put_ratio
    total_calls,
    total_puts,
    sentiment,       \* label of the sentiment branch
    monthly_ratios,  \* result of calculate_monthly_call_put_ratios
    options_data_with_greeks,  \* result of add_greeks_to_options_data
    risk_free_rate,  \* the rate typed in the Greeks tab
    g_args,          \* arguments of a direct compute_greeks call
    g_out,           \* its result
    min_volume,      \* the minimum volume typed in the Volatility Surface tab
    filtered_data_calls,  \* the rows kept for the call surface
    filtered_data_puts,   \* the rows kept for the put surface
    fig_1,           \* result of compute_volatility_surface_plotly on the calls
    fig_2,           \* and on the puts
    feed_src,        \* the entries feedparser.parse gives for a url
    pending,         \* the (source, category) pairs fetch_all_feeds has still to visit
    all_feeds        \* all_feeds of fetch_all_feeds: (source, category) -> entries

vars == <<ticker, now, chain, price_src, pc, error, options_data, last_price,
          call_put_ratio, total_calls, total_puts, sentiment, monthly_ratios,
          options_data_with_greeks, risk_free_rate, g_args, g_out, min_volume,
          filtered_data_calls, filtered_data_puts, fig_1, fig_2, feed_src, pending,
          all_feeds>>

----------------------------------------------------------------------------
(* float64 values and the arithmetic numpy/pandas apply to them *)

\* F(a) and F(a, b) with each operand evaluated once
Once1(F(_), a) == CHOOSE r \in {F(x) : x \in {a}} : TRUE

Once2(F(_, _), a, b) == CHOOSE r \in {F(x, y) : x \in {a}, y \in {b}} : TRUE

Abs(x) == IF x < 0 THEN -x ELSE x

Sign(x) == IF x < 0 THEN -1 ELSE IF x > 0 THEN 1 ELSE 0

RECURSIVE Gcd(_, _)
Gcd(a, b) == IF b = 0 THEN a ELSE Gcd(b, a % b)

NaN == [k |-> "nan", n |-> 0, d |-> 0]

Inf(s) == [k |-> "inf", n |-> s, d |-> 0]

\* n/d with d # 0, in lowest terms with a positive denominator
Frac(n, d) ==
    LET g == Gcd(Abs(n), Abs(d))
        s == IF d < 0 THEN -1 ELSE 1
    IN  [k |-> "fin", n |-> (s * n) \div g, d |-> Abs(d) \div g]

Num(i) == Frac(i, 1)

IsNaN(x) == x.k = "nan"

IsInf(x) == x.k = "inf"

IsFin(x) == x.k = "fin"

FSign(x) == Sign(x.n)

FNeg(a) ==
    LET Op(x) == IF IsNaN(x) THEN NaN ELSE [x EXCEPT !.n = -x.n]
    IN  Once1(Op, a)

\* x + y; inf + (-inf) is nan
FAdd(a, b) ==
    LET Op(x, y) ==
            IF IsNaN(x) \/ IsNaN(y) THEN NaN
            ELSE IF IsInf(x) /\ IsInf(y) THEN (IF x.n = y.n THEN x ELSE NaN)
            ELSE IF IsInf(x) THEN x
            ELSE IF IsInf(y) THEN y
            ELSE Frac(x.n * y.d + y.n * x.d, x.d * y.d)
    IN  Once2(Op, a, b)

FSub(x, y) == FAdd(x, FNeg(y))

\* x * y; inf * 0 is nan
FMul(a, b) ==
    LET Op(x, y) ==
            IF IsNaN(x) \/ IsNaN(y) THEN NaN
            ELSE IF IsInf(x) \/ IsInf(y)
                 THEN (IF FSign(x) * FSign(y) = 0 THEN NaN ELSE Inf(FSign(x) * FSign(y)))
            ELSE Frac(x.n * y.n, x.d * y.d)
    IN  Once2(Op, a, b)

\* x / y on float64: no exception; x/0 is +-inf, 0/0 and inf/inf are nan
FDiv(a, b) ==
    LET Op(x, y) ==
            IF IsNaN(x) \/ IsNaN(y) THEN NaN
            ELSE IF IsInf(x) /\ IsInf(y) THEN NaN
            ELSE IF IsInf(x) THEN Inf(IF FSign(y) < 0 THEN -x.n ELSE x.n)
            ELSE IF IsInf(y) THEN Num(0)
            ELSE IF y.n = 0 THEN (IF x.n = 0 THEN NaN ELSE Inf(FSign(x)))
            ELSE Frac(x.n * y.d, x.d * y.n)
    IN  Once2(Op, a, b)

\* x < y and x > y; every comparison with nan is false
FLess(a, b) ==
    LET Op(x, y) ==
            IF IsNaN(x) \/ IsNaN(y) THEN FALSE
            ELSE IF IsInf(x) THEN x.n < 0 /\ ~(IsInf(y) /\ y.n < 0)
            ELSE IF IsInf(y) THEN y.n > 0
            ELSE x.n * y.d < y.n * x.d
    IN  Once2(Op, a, b)

FGreater(x, y) == FLess(y, x)

----------------------------------------------------------------------------
(* calendar dates [y, m, d], as pd.to_datetime reads the expiration strings *)

IsLeap(y) == (y % 4 = 0 /\ y % 100 # 0) \/ y % 400 = 0

DaysInMonth(y, m) ==
    IF m = 2 THEN (IF IsLeap(y) THEN 29 ELSE 28)
    ELSE IF m \in {4, 6, 9, 11} THEN 30 ELSE 31

RECURSIVE DaysBeforeMonth(_, _)
DaysBeforeMonth(y, m) ==
    IF m = 1 THEN 0 ELSE DaysBeforeMonth(y, m - 1) + DaysInMonth(y, m - 1)

\* proleptic Gregorian day number of a date
Ordinal(dt) ==
    LET y == dt.y - 1
    IN  365 * y + y \div 4 - y \div 100 + y \div 400
        + DaysBeforeMonth(dt.y, dt.m) + dt.d

DaysPerYear == 365

\* (pd.to_datetime(Expiration) - pd.Timestamp.today()).dt.days / 365:
\* the expiration is midnight of its date, the difference keeps the time of
\* day and .days is its floor in whole days
TimeToExpiration(expiration, instant) ==
    LET hours == 24 * (Ordinal(expiration) - Ordinal(instant.date)) - instant.hour
    IN  FDiv(Num(hours \div 24), Num(DaysPerYear))

----------------------------------------------------------------------------
(* contract identifiers and the classification step *)

DigitChars == <<"0", "1", "2", "3", "4", "5", "6", "7", "8", "9">>

RECURSIVE Pad(_, _)
\* the decimal digits of n, zero-padded to width w
Pad(n, w) == IF w = 0 THEN <<>> ELSE Pad(n \div 10, w - 1) \o <<DigitChars[(n % 10) + 1]>>

\* <TICKER><YYMMDD><C|P><strike8>, the strike in thousandths
ContractSymbol(tk, expiration, typeChar, strike) ==
    tk \o Pad(expiration.y % 100, 2) \o Pad(expiration.m, 2) \o Pad(expiration.d, 2)
       \o <<typeChar>> \o Pad(strike * 1000, 8)

\* the least i with sep at position i of s, or 0
FindSep(s, sep) ==
    LET hits == {i \in 1..(Len(s) - Len(sep) + 1) : SubSeq(s, i, i + Len(sep) - 1) = sep}
    IN  IF hits = {} THEN 0 ELSE CHOOSE i \in hits : \A j \in hits : i <= j

RECURSIVE Split(_, _)
\* str.split(sep): the pieces between non-overlapping occurrences of sep
Split(s, sep) ==
    LET i == FindSep(s, sep)
    IN  IF i = 0 THEN <<s>>
        ELSE <<SubSeq(s, 1, i - 1)>> \o Split(SubSeq(s, i + Len(sep), Len(s)), sep)

TypePosition == 6

\* lambda x: x.split(ticker)[1][6]; an index out of range raises IndexError
TypeCharOf(x, tk) ==
    LET parts == Split(x, tk)
    IN  IF Len(parts) < 2 THEN [err |-> "IndexError", ch |-> ""]
        ELSE IF Len(parts[2]) < TypePosition + 1 THEN [err |-> "IndexError", ch |-> ""]
        ELSE [err |-> "none", ch |-> parts[2][TypePosition + 1]]

\* .map({"C": "Call", "P": "Put"}): a key missing from the dict maps to NaN
MapType(ch) == IF ch = "C" THEN "Call" ELSE IF ch = "P" THEN "Put" ELSE "NaN"

----------------------------------------------------------------------------
(* get_options_data *)

\* one batch of the chain with its rows labelled 0.. and no other column
RECURSIVE Labelled(_, _)
Labelled(recs, from) ==
    IF recs = <<>> THEN <<>>
    ELSE <<[index |-> from, contractSymbol |-> Head(recs).contractSymbol,
            strike |-> Head(recs).strike, lastPrice |-> Head(recs).lastPrice,
            impliedVolatility |-> Head(recs).impliedVolatility,
            volume |-> Head(recs).volume]>> \o Labelled(Tail(recs), from + 1)

\* pd.concat([opt.calls, opt.puts]) with current_options['Expiration'] = date:
\* each frame keeps its own index labels
CurrentOptions(batch) ==
    LET rows == Labelled(batch.calls, 0) \o Labelled(batch.puts, 0)
    IN  [i \in 1..Len(rows) |-> rows[i] @@ [Expiration |-> batch.date]]

RECURSIVE AllOptions(_)
\* the loop over stock.options: all_options = pd.concat([all_options, current_options])
AllOptions(ch) ==
    IF ch = <<>> THEN <<>> ELSE CurrentOptions(Head(ch)) \o AllOptions(Tail(ch))

SortTypeRankNoType(t) == 0

\* order of the Type column under sort_values: "Call" < "Put", NaN last
SortTypeRank(t) == IF t = "Call" THEN 0 ELSE IF t = "Put" THEN 1 ELSE 2

\* a sorts strictly before b by ["strike", "Time to Expiration", "Type"]
KeyLess(a, b) ==
    \/ a.strike < b.strike
    \/ /\ a.strike = b.strike
       /\ FLess(a.Time_to_Expiration, b.Time_to_Expiration)
    \/ /\ a.strike = b.strike
       /\ a.Time_to_Expiration = b.Time_to_Expiration
       /\ SortTypeRank(a.Type) < SortTypeRank(b.Type)

\* r put after the last row of the sorted table that does not sort after it
Insert(sorted, r) ==
    LET before == {i \in 1..Len(sorted) : ~KeyLess(r, sorted[i])}
        p == IF before = {} THEN 0 ELSE CHOOSE i \in before : \A j \in before : j <= i
    IN  SubSeq(sorted, 1, p) \o <<r>> \o SubSeq(sorted, p + 1, Len(sorted))

RECURSIVE SortValues(_)
\* all_options.sort_values(by=["strike", "Time to Expiration", "Type"]), stable
SortValues(rows) ==
    IF rows = <<>> THEN <<>>
    ELSE Insert(SortValues(SubSeq(rows, 1, Len(rows) - 1)), rows[Len(rows)])

\* all_options["volume"].fillna(0)
\* the fillna whose result is not assigned back to the column
FillNaUnassigned(rows) == rows

FillNa(rows) ==
    [i \in 1..Len(rows) |->
        IF IsNaN(rows[i].volume) THEN [rows[i] EXCEPT !.volume = Num(0)] ELSE rows[i]]

DefaultLastPrice == 500

\* the last close of the 1-minute history, else of the 2-week daily history,
\* else 500
LastPrice(src) ==
    IF src.intraday # <<>> THEN src.intraday[Len(src.intraday)]
    ELSE IF src.daily # <<>> THEN src.daily[Len(src.daily)]
    ELSE Num(DefaultLastPrice)

\* get_options_data(ticker): [err, table, price].  A frame built from no
\* batch has no column, so all_options['Expiration'] raises KeyError; the
\* classification lambda raises IndexError on the first row it cannot index.
get_options_data(tk, ch, instant, src) ==
    LET all == AllOptions(ch)
        timed == [i \in 1..Len(all) |->
                    all[i] @@ [Time_to_Expiration |->
                                  TimeToExpiration(all[i].Expiration, instant)]]
        chars == [i \in 1..Len(all) |-> TypeCharOf(all[i].contractSymbol, tk)]
        typed == [i \in 1..Len(all) |-> timed[i] @@ [Type |-> MapType(chars[i].ch)]]
    IN  IF ch = <<>>
        THEN [err |-> "KeyError", table |-> <<>>, price |-> NaN]
        ELSE IF \E i \in 1..Len(all) : chars[i].err # "none"
        THEN [err |-> "IndexError", table |-> <<>>, price |-> NaN]
        ELSE [err |-> "none", table |-> FillNa(SortValues(typed)),
              price |-> LastPrice(src)]

----------------------------------------------------------------------------
(* calculate_call_put_ratio, the sentiment branch, monthly ratios *)

RECURSIVE SumVolume(_, _)
\* options_data[options_data['Type'] == t]['volume'].sum(); sum() skips NaN
SumVolume(rows, t) ==
    IF rows = <<>> THEN Num(0)
    ELSE IF Head(rows).Type = t /\ ~IsNaN(Head(rows).volume)
         THEN FAdd(Head(rows).volume, SumVolume(Tail(rows), t))
         ELSE SumVolume(Tail(rows), t)

\* calculate_call_put_ratio with the quotient taken the other way round
PutCallRatio(rows) ==
    LET calls == SumVolume(rows, "Call")
        puts == SumVolume(rows, "Put")
    IN  [ratio |-> IF calls # Num(0) THEN FDiv(puts, calls) ELSE Inf(1),
         total_calls |-> calls, total_puts |-> puts]

calculate_call_put_ratio(rows) ==
    LET calls == SumVolume(rows, "Call")
        puts == SumVolume(rows, "Put")
    IN  [ratio |-> IF puts # Num(0) THEN FDiv(calls, puts) ELSE Inf(1),
         total_calls |-> calls, total_puts |-> puts]

BullishAbove == Frac(12, 10)

BearishBelow == Frac(8, 10)

\* the sentiment branch with the two thresholds taken as inclusive
SentimentInclusive(ratio) ==
    IF ~FLess(ratio, BullishAbove) THEN "Bullish"
    ELSE IF ~FGreater(ratio, BearishBelow) THEN "Bearish"
    ELSE "Neutral"

\* the if / elif / else on call_put_ratio
Sentiment(ratio) ==
    IF FGreater(ratio, BullishAbove) THEN "Bullish"
    ELSE IF FLess(ratio, BearishBelow) THEN "Bearish"
    ELSE "Neutral"

\* pd.to_datetime(Expiration).dt.to_period('M')
MonthOf(dt) == [y |-> dt.y, m |-> dt.m]

MonthLess(a, b) == a.y < b.y \/ (a.y = b.y /\ a.m < b.m)

\* the month written over the Expiration column instead of a new column
WithMonthOverExpiration(rows) ==
    [i \in 1..Len(rows) |->
        [rows[i] EXCEPT !.Expiration = [y |-> @.y, m |-> @.m, d |-> 1]]
        @@ [Month |-> MonthOf(rows[i].Expiration)]]

\* options_data['Month'] = ...: the column is added to the caller's table
WithMonth(rows) ==
    [i \in 1..Len(rows) |-> rows[i] @@ [Month |-> MonthOf(rows[i].Expiration)]]

\* the group keys groupby(['Type', 'Month']) keeps: it drops a NaN key
GroupKeys(rows) ==
    {<<rows[i].Type, rows[i].Month>> : i \in {j \in 1..Len(rows) : rows[j].Type # "NaN"}}

RECURSIVE MonthVolume(_, _, _)
\* grouped['volume'].sum() of one (Type, Month) group
MonthVolume(rows, t, mo) ==
    IF rows = <<>> THEN Num(0)
    ELSE IF Head(rows).Type = t /\ Head(rows).Month = mo /\ ~IsNaN(Head(rows).volume)
         THEN FAdd(Head(rows).volume, MonthVolume(Tail(rows), t, mo))
         ELSE MonthVolume(Tail(rows), t, mo)

\* one cell of .unstack('Type'): NaN where the (Type, Month) group is absent
Unstacked(rows, t, mo) ==
    IF <<t, mo>> \in GroupKeys(rows) THEN MonthVolume(rows, t, mo) ELSE NaN

RECURSIVE SortedMonths(_)
\* the index of the unstacked frame: the months, ascending
SortedMonths(ms) ==
    IF ms = {} THEN <<>>
    ELSE LET first == CHOOSE a \in ms : \A b \in ms : ~MonthLess(b, a)
         IN  <<first>> \o SortedMonths(ms \ {first})

\* calculate_monthly_call_put_ratios(options_data): [err, table, ratios].
\* monthly_volumes['Call'] and then ['Put'] raise KeyError when the Type has
\* no group at all.
calculate_monthly_call_put_ratios(rows) ==
    LET withMonth == WithMonth(rows)
        keys == GroupKeys(withMonth)
        months == SortedMonths({key[2] : key \in keys})
    IN  IF ~(\E key \in keys : key[1] = "Call") \/ ~(\E key \in keys : key[1] = "Put")
        THEN [err |-> "KeyError", table |-> withMonth, ratios |-> <<>>]
        ELSE [err |-> "none", table |-> withMonth,
              ratios |-> [i \in 1..Len(months) |->
                  [Month |-> months[i],
                   ratio |-> FDiv(Unstacked(withMonth, "Call", months[i]),
                                  Unstacked(withMonth, "Put", months[i]))]]]

----------------------------------------------------------------------------
(* compute_greeks.  float64 rounding is modelled on a grid of thousandths: *)
(* every operation yields the exact result rounded to the nearest          *)
(* thousandth.  np.log, np.exp, np.sqrt, norm.cdf and norm.pdf are library *)
(* code: they are modelled by their values at nan, +-inf and 0 and by a    *)
(* truncated series or an interpolated table elsewhere.                    *)

\* the finite x rounded to the nearest thousandth
Round(a) ==
    LET Op(x) ==
            IF ~IsFin(x) THEN x
            ELSE FAdd(Num(x.n \div x.d),
                      Frac((2000 * (x.n % x.d) + x.d) \div (2 * x.d), 1000))
    IN  Once1(Op, a)

RAdd(x, y) == Round(FAdd(x, y))

RSub(x, y) == Round(FSub(x, y))

RMul(x, y) == Round(FMul(x, y))

RDiv(x, y) == Round(FDiv(x, y))

RECURSIVE ISqrtFrom(_, _)
ISqrtFrom(v, r) ==
    LET next == (r + v \div r) \div 2
    IN  IF next >= r THEN r ELSE ISqrtFrom(v, next)

\* floor of the square root of the natural number v (Newton iteration)
ISqrt(v) == IF v < 2 THEN v ELSE ISqrtFrom(v, v)

\* np.sqrt: nan below 0, no exception
Sqrt(a) ==
    LET Op(x) ==
            IF IsNaN(x) THEN NaN
            ELSE IF IsInf(x) THEN (IF x.n > 0 THEN x ELSE NaN)
            ELSE IF x.n < 0 THEN NaN
            ELSE Frac(ISqrt((x.n * 1000000) \div x.d), 1000)
    IN  Once1(Op, a)

\* np.log: -inf at 0, nan below 0, no exception; elsewhere
\* 2 (z + z^3/3 + z^5/5) with z = (x - 1)/(x + 1)
Log(a) ==
    LET Series(z) ==
            RMul(Num(2), RAdd(z, RAdd(RDiv(RMul(RMul(z, z), z), Num(3)),
                                      RDiv(RMul(RMul(RMul(z, z), z), RMul(z, z)), Num(5)))))
        Op(x) ==
            IF IsNaN(x) THEN NaN
            ELSE IF IsInf(x) THEN (IF x.n > 0 THEN x ELSE NaN)
            ELSE IF x.n < 0 THEN NaN
            ELSE IF x.n = 0 THEN Inf(-1)
            ELSE Once1(Series, RDiv(FSub(x, Num(1)), FAdd(x, Num(1))))
    IN  Once1(Op, a)

\* np.exp: 0 at -inf, inf at +inf; elsewhere 1 + x + x^2/2 + x^3/6
Exp(a) ==
    LET Op(x) ==
            IF IsNaN(x) THEN NaN
            ELSE IF IsInf(x) THEN (IF x.n > 0 THEN x ELSE Num(0))
            ELSE RAdd(Num(1), RAdd(x, RAdd(RDiv(RMul(x, x), Num(2)),
                                           RDiv(RMul(RMul(x, x), x), Num(6)))))
    IN  Once1(Op, a)

\* thousandths of the standard normal cdf and pdf at 0, 0.5, 1, ..., 4
CdfTable == <<500, 691, 841, 933, 977, 994, 999, 1000, 1000>>

PdfTable == <<399, 352, 242, 130, 54, 18, 4, 1, 0>>

\* the table interpolated at the finite x >= 0, constant from 4 on
Interpolate(table, a) ==
    LET Op(x, k) ==
            IF k >= Len(table) - 1 THEN Frac(table[Len(table)], 1000)
            ELSE RAdd(Frac(table[k + 1], 1000),
                      RMul(Frac(table[k + 2] - table[k + 1], 1000),
                           FSub(FMul(Num(2), x), Num(k))))
        At(x) == Once2(Op, x, (2 * x.n) \div x.d)
    IN  Once1(At, a)

\* si.norm.cdf(x, 0.0, 1.0): below 0 it is 1 - cdf(-x)
Cdf(a) ==
    LET Op(x) ==
            IF IsNaN(x) THEN NaN
            ELSE IF IsInf(x) THEN (IF x.n > 0 THEN Num(1) ELSE Num(0))
            ELSE IF x.n < 0 THEN FSub(Num(1), Interpolate(CdfTable, FNeg(x)))
            ELSE Interpolate(CdfTable, x)
    IN  Once1(Op, a)

\* si.norm.pdf(x, 0.0, 1.0): even, 0 at +-inf
Pdf(a) ==
    LET Op(x) ==
            IF IsNaN(x) THEN NaN
            ELSE IF IsInf(x) THEN Num(0)
            ELSE Interpolate(PdfTable, IF x.n < 0 THEN FNeg(x) ELSE x)
    IN  Once1(Op, a)

ThetaDays == 365

PerCent == 100

\* the put delta taken at d1 instead of -d1
PutDeltaUnreflected(d1) == FNeg(Cdf(d1))

\* delta = -si.norm.cdf(-d1, 0.0, 1.0)
PutDelta(d1) == FNeg(Cdf(FNeg(d1)))

\* compute_greeks(S, K, T, r, sigma, option_type) on float64 arguments: no
\* argument is checked, no operation raises; an option_type other than
\* "call" and "put" leaves delta unbound at the return statement.
\* sqrtT is np.sqrt(T), pdf1 is norm.pdf(d1), disc is np.exp(-r * T).
compute_greeks(S, K, T, r, sigma, option_type) ==
    CHOOSE greeks \in UNION {UNION {
        {LET decay == RDiv(RMul(RMul(FNeg(S), pdf1), sigma), RMul(Num(2), sqrtT))
             gamma == RDiv(pdf1, RMul(RMul(S, sigma), sqrtT))
             vega == RDiv(RMul(RMul(S, pdf1), sqrtT), Num(PerCent))
         IN  IF option_type = "call"
             THEN [err |-> "none",
                   delta |-> Cdf(d1),
                   gamma |-> gamma,
                   theta |-> RDiv(RSub(decay, RMul(RMul(RMul(r, K), disc), Cdf(d2))),
                                  Num(ThetaDays)),
                   vega |-> vega,
                   rho |-> RDiv(RMul(RMul(RMul(K, T), disc), Cdf(d2)), Num(PerCent))]
             ELSE IF option_type = "put"
             THEN [err |-> "none",
                   delta |-> PutDelta(d1),
                   gamma |-> gamma,
                   theta |-> RDiv(RAdd(decay, RMul(RMul(RMul(r, K), disc), Cdf(FNeg(d2)))),
                                  Num(ThetaDays)),
                   vega |-> vega,
                   rho |-> RDiv(RMul(RMul(RMul(FNeg(K), T), disc), Cdf(FNeg(d2))),
                                Num(PerCent))]
             ELSE [err |-> "UnboundLocalError", delta |-> NaN, gamma |-> NaN,
                   theta |-> NaN, vega |-> NaN, rho |-> NaN] :
           d2 \in {RSub(d1, RMul(sigma, sqrtT))},
           pdf1 \in {Pdf(d1)},
           disc \in {Exp(RMul(FNeg(r), T))}} :
        d1 \in {RDiv(RAdd(Log(RDiv(S, K)),
                          RMul(RAdd(r, RMul(Frac(1, 2), RMul(sigma, sigma))), T)),
                     RMul(sigma, sqrtT))}} :
        sqrtT \in {Sqrt(T)}} : TRUE

----------------------------------------------------------------------------
(* add_greeks_to_options_data and calculate_leverage *)

\* str.lower() of a Type
Lower(t) == IF t = "Call" THEN "call" ELSE IF t = "Put" THEN "put" ELSE t

\* the loop over options_data.iterrows(): one compute_greeks per row, in row
\* order; a NaN Type is a float and has no lower()
GreeksOfRows(rows, stock_price, rate) ==
    [i \in 1..Len(rows) |->
        IF rows[i].Type = "NaN"
        THEN [err |-> "AttributeError"]
        ELSE compute_greeks(stock_price, Num(rows[i].strike), rows[i].Time_to_Expiration,
                            rate, rows[i].impliedVolatility, Lower(rows[i].Type))]

\* the concat without reset_index: a row is joined with the Greeks of its label
AddGreeksByLabel(rows, stock_price, rate) ==
    LET Concat(greeks) ==
            IF \E i \in 1..Len(rows) : greeks[i].err # "none"
            THEN [err |-> "AttributeError", table |-> <<>>]
            ELSE [err |-> "none",
                  table |-> [i \in 1..Len(rows) |->
                      rows[i]
                      @@ [name \in {"delta", "gamma", "theta", "vega", "rho"} |->
                             greeks[rows[i].index + 1][name]]]]
    IN  Once1(Concat, GreeksOfRows(rows, stock_price, rate))

\* pd.concat([options_data.reset_index(drop=True), greeks_df], axis=1): both
\* frames are labelled 0.., so row i is joined with greeks i.  With no row,
\* greeks_df has no column and neither has the result a Greek column.
add_greeks_to_options_data(rows, stock_price, rate) ==
    LET Concat(greeks) ==
            IF \E i \in 1..Len(rows) : greeks[i].err # "none"
            THEN [err |-> greeks[CHOOSE i \in 1..Len(rows) :
                                   /\ greeks[i].err # "none"
                                   /\ \A j \in 1..(i - 1) : greeks[j].err = "none"].err,
                  table |-> <<>>]
            ELSE [err |-> "none",
                  table |-> [i \in 1..Len(rows) |->
                      [rows[i] EXCEPT !.index = i - 1]
                      @@ [delta |-> greeks[i].delta, gamma |-> greeks[i].gamma,
                          theta |-> greeks[i].theta, vega |-> greeks[i].vega,
                          rho |-> greeks[i].rho]]]
    IN  Once1(Concat, GreeksOfRows(rows, stock_price, rate))

\* calculate_leverage(options_data, stock_price): the column is added to the
\* caller's table; a table without a delta column raises KeyError
calculate_leverage(rows, stock_price) ==
    IF rows = <<>> \/ "delta" \notin DOMAIN rows[1]
    THEN [err |-> "KeyError", table |-> rows]
    ELSE [err |-> "none",
          table |-> [i \in 1..Len(rows) |->
              rows[i] @@ [Leverage |-> FDiv(FMul(rows[i].delta, stock_price),
                                           rows[i].lastPrice)]]]

----------------------------------------------------------------------------
(* compute_volatility_surface_plotly and the filters of its tab *)

\* int(x) of a float64 x >= 0
IntOf(x) == x.n \div x.d

\* min_strike = int(last_price * 0.8)
MinStrike(price) == IntOf(FMul(price, Frac(8, 10)))

\* max_strike = int(last_price * 1.2)
MaxStrike(price) == IntOf(FMul(price, Frac(12, 10)))

\* step = int(last_price * 0.01), the step of the two strike sliders
SliderStep(price) == IntOf(FMul(price, Frac(1, 100)))

\* options_data[(Type == t) & (volume >= min_volume) & (strike >= min_strike)
\* & (strike <= max_strike)], the sliders left at their initial values
Filtered(rows, t, minVolume, price) ==
    SelectSeq(rows, LAMBDA row :
        /\ row.Type = t
        /\ ~FLess(row.volume, minVolume)
        /\ row.strike >= MinStrike(price)
        /\ row.strike <= MaxStrike(price))

\* the points (x, y) = (Time to Expiration, log(strike / current_price))
SurfacePoints(rows, current_price) ==
    {<<rows[i].Time_to_Expiration, Log(RDiv(Num(rows[i].strike), current_price))>> :
        i \in 1..Len(rows)}

\* the three points are on one line
Collinear(p, q, r) ==
    FMul(FSub(q[1], p[1]), FSub(r[2], p[2])) = FMul(FSub(r[1], p[1]), FSub(q[2], p[2]))

\* compute_volatility_surface_plotly(options_data, current_price): griddata
\* with method='cubic' triangulates the points (x, y) and Qhull raises
\* QhullError unless three of them are not on one line; nothing before that
\* call looks at the points.
compute_volatility_surface_plotly(rows, current_price) ==
    LET Surface(points) ==
            IF \E p, q, r \in points : ~Collinear(p, q, r)
            THEN [err |-> "none", fig |-> [surface |-> points]]
            ELSE [err |-> "QhullError", fig |-> <<>>]
    IN  Once1(Surface, SurfacePoints(rows, current_price))

----------------------------------------------------------------------------
(* the inputs of one run: ticker, evaluation instant, chain, price source *)

MaxRecords == 3

SeqsUpTo(S, n) == UNION {[1..k -> S] : k \in 0..n}

Today == [y |-> 2024, m |-> 1, d |-> 15]

Tomorrow == [y |-> 2024, m |-> 1, d |-> 16]

InThirtyDays == [y |-> 2024, m |-> 2, d |-> 14]

InSixtyDays == [y |-> 2024, m |-> 3, d |-> 15]

Noon == [date |-> Today, hour |-> 12]

MA == <<"M", "A">>

Tickers == {MA, <<"C">>, <<"P">>, <<"P", "C", "G">>, <<"C", "C">>}

Volumes == {NaN, Num(0), Num(10), Num(40), Num(50)}

Quoted == [intraday |-> <<Num(99), Num(100)>>, daily |-> <<Num(98)>>]

\* a record of the provider; typeChar "*" stands for the character of the
\* batch the record is in (C in calls, P in puts)
Item(typeChar, strike, volume) ==
    [typeChar |-> typeChar, strike |-> strike, volume |-> volume,
     lastPrice |-> Num(2), impliedVolatility |-> Frac(1, 5)]

Record(tk, date, item, batchChar) ==
    [contractSymbol |->
        ContractSymbol(tk, date, IF item.typeChar = "*" THEN batchChar ELSE item.typeChar,
                       item.strike),
     strike |-> item.strike, lastPrice |-> item.lastPrice,
     impliedVolatility |-> item.impliedVolatility, volume |-> item.volume]

\* the ways to cut the records s into the calls and puts of the dates
Cuts(dates, s) ==
    {c \in [0..(2 * Len(dates)) -> 0..Len(s)] :
        /\ c[0] = 0
        /\ c[2 * Len(dates)] = Len(s)
        /\ \A j \in 1..(2 * Len(dates)) : c[j - 1] <= c[j]}

ChainOf(tk, dates, s, c) ==
    [j \in 1..Len(dates) |->
        [date |-> dates[j],
         calls |-> [i \in 1..(c[2 * j - 1] - c[2 * j - 2]) |->
                      Record(tk, dates[j], s[c[2 * j - 2] + i], "C")],
         puts |-> [i \in 1..(c[2 * j] - c[2 * j - 1]) |->
                      Record(tk, dates[j], s[c[2 * j - 1] + i], "P")]]]

\* every chain of the dates holding at most MaxRecords of the items
Chains(tk, dates, items) ==
    IF dates = <<>> THEN {<<>>}
    ELSE UNION {{ChainOf(tk, dates, s, c) : c \in Cuts(dates, s)} :
                  s \in SeqsUpTo(items, MaxRecords)}

Run(tk, instant, ch, src) ==
    [ticker |-> tk, now |-> instant, chain |-> ch, price_src |-> src]

\* records in any order of strike and type under one expiration, and in any
\* order of type over two expirations
OrderRuns ==
    {Run(MA, Noon, ch, Quoted) :
        ch \in Chains(MA, <<InThirtyDays>>,
                      {Item(t, k, Num(10)) : t \in {"C", "P"}, k \in {100, 110}})
              \cup Chains(MA, <<InThirtyDays, InSixtyDays>>,
                          {Item(t, 100, Num(10)) : t \in {"C", "P"}})}

\* identifiers with a wrong character at the type position
MalformedRuns ==
    {Run(MA, Noon, ch, Quoted) :
        ch \in Chains(MA, <<InThirtyDays>>,
                      {Item(t, 100, Num(10)) : t \in {"C", "P", "X"}})}

\* tickers that hold a C or a P
TickerRuns ==
    UNION {{Run(tk, Noon, ch, Quoted) :
              ch \in Chains(tk, <<InThirtyDays>>, {Item(t, 100, Num(10)) : t \in {"C", "P"}})} :
           tk \in Tickers}

\* evaluation instants through the day and expirations from today on
TimeRuns ==
    UNION {{Run(MA, [date |-> Today, hour |-> h], ch, Quoted) :
              ch \in UNION {Chains(MA, ds, {Item("*", 100, Num(10))}) :
                              ds \in {<<Today>>, <<Tomorrow>>, <<InThirtyDays>>,
                                      <<Today, InThirtyDays>>}}} :
           h \in {0, 12, 23}}

\* volumes, absent or not, under one expiration, and volumes over two
\* expiration months
VolumeRuns ==
    {Run(MA, Noon, ch, Quoted) :
        ch \in Chains(MA, <<InThirtyDays>>, {Item("*", 100, v) : v \in Volumes \ {Num(0)}})
              \cup Chains(MA, <<InThirtyDays, InSixtyDays>>,
                          {Item("*", 100, v) : v \in {Num(0), Num(10)}})}

\* what the price source holds
PriceRuns ==
    {Run(MA, Noon, ch, [intraday |-> i, daily |-> d]) :
        ch \in Chains(MA, <<InThirtyDays>>, {Item("*", 100, Num(10))}),
        i \in {<<>>, <<Num(100)>>}, d \in {<<>>, <<Num(98)>>}}

\* last prices, 0 for a contract that never traded
LeverageRuns ==
    {Run(MA, Noon, ch, Quoted) :
        ch \in Chains(MA, <<InThirtyDays>>,
                      {[Item("*", 100, Num(10)) EXCEPT !.lastPrice = premium] :
                          premium \in {Num(0), Num(2)}})}

\* for each <<expiration, strikes>>, a call and a put of volume 50 at every
\* strike
StrikesChain(expirations) ==
    [j \in 1..Len(expirations) |->
        [date |-> expirations[j][1],
         calls |-> [i \in 1..Len(expirations[j][2]) |->
                      Record(MA, expirations[j][1],
                             Item("C", expirations[j][2][i], Num(50)), "C")],
         puts |-> [i \in 1..Len(expirations[j][2]) |->
                     Record(MA, expirations[j][1],
                            Item("P", expirations[j][2][i], Num(50)), "P")]]]

\* tables whose calls and puts lie on one point, on two points, on a line of
\* three points and on three points off a line
SurfaceRuns ==
    {Run(MA, Noon, StrikesChain(expirations), Quoted) :
        expirations \in {<<<<InThirtyDays, <<100>>>>>>,
                         <<<<InThirtyDays, <<100>>>>, <<InSixtyDays, <<100>>>>>>,
                         <<<<InThirtyDays, <<90, 100, 110>>>>>>,
                         <<<<InThirtyDays, <<100, 110>>>>, <<InSixtyDays, <<100>>>>>>}}

\* a ticker without expirations
NoExpirationRuns == {Run(MA, Noon, <<>>, Quoted)}

\* one expiration 30 days out with the calls and puts of the given
\* <<strike, volume>> pairs
OneExpiration(calls, puts) ==
    <<[date |-> InThirtyDays,
       calls |-> [i \in 1..Len(calls) |->
                    Record(MA, InThirtyDays, Item("C", calls[i][1], calls[i][2]), "C")],
       puts |-> [i \in 1..Len(puts) |->
                    Record(MA, InThirtyDays, Item("P", puts[i][1], puts[i][2]), "P")]]>>

\* four contracts: strike 100 call volume 10 and put volume 5, strike 110 call
\* without volume and put volume 20
Scenario ==
    OneExpiration(<<<<100, Num(10)>>, <<110, NaN>>>>, <<<<100, Num(5)>>, <<110, Num(20)>>>>)

\* the scenario, 300 calls against 0 puts, 100 calls against 50 puts
ExampleRuns ==
    {Run(MA, [date |-> Today, hour |-> h], ch, Quoted) :
        h \in {0, 12},
        ch \in {Scenario,
                OneExpiration(<<<<100, Num(300)>>>>, <<<<100, Num(0)>>>>),
                OneExpiration(<<<<100, Num(100)>>>>, <<<<100, Num(50)>>>>)}}

Runs ==
    OrderRuns \cup MalformedRuns \cup TickerRuns \cup TimeRuns \cup VolumeRuns
    \cup PriceRuns \cup LeverageRuns \cup SurfaceRuns \cup NoExpirationRuns
    \cup ExampleRuns

Rates == {Frac(4, 100)}

\* what the user leaves or types as minimum volume
MinVolumes == {Num(10), Num(1000)}

----------------------------------------------------------------------------
(* the script: one run for the ticker typed in *)

NoTable == <<>>

NoError == [at |-> "none", exc |-> "none"]

Raised(call, exc) == [at |-> call, exc |-> exc]

Init ==
    /\ \E run \in Runs :
          /\ ticker = run.ticker
          /\ now = run.now
          /\ chain = run.chain
          /\ price_src = run.price_src
    /\ risk_free_rate \in Rates
    /\ pc = "get_options_data"
    /\ error = NoError
    /\ options_data = NoTable
    /\ last_price = NaN
    /\ call_put_ratio = NaN
    /\ total_calls = NaN
    /\ total_puts = NaN
    /\ sentiment = "none"
    /\ monthly_ratios = <<>>
    /\ options_data_with_greeks = NoTable
    /\ g_args = <<>>
    /\ g_out = <<>>
    /\ min_volume = NaN
    /\ filtered_data_calls = NoTable
    /\ filtered_data_puts = NoTable
    /\ fig_1 = <<>>
    /\ fig_2 = <<>>
    /\ feed_src = <<>>
    /\ pending = <<>>
    /\ all_feeds = <<>>

inputs == <<ticker, now, chain, price_src, risk_free_rate, g_args>>

surface_tab == <<min_volume, filtered_data_calls, filtered_data_puts, fig_1, fig_2>>

rss == <<feed_src, pending, all_feeds>>

\* options_data, last_price = get_options_data(ticker)
GetOptionsData ==
    /\ pc = "get_options_data"
    /\ \E res \in {get_options_data(ticker, chain, now, price_src)} :
           IF res.err = "none"
           THEN /\ options_data' = res.table
                /\ last_price' = res.price
                /\ pc' = "calculate_call_put_ratio"
                /\ error' = error
           ELSE /\ error' = Raised("get_options_data", res.err)
                /\ pc' = "raised"
                /\ UNCHANGED <<options_data, last_price>>
    /\ UNCHANGED <<inputs, rss, surface_tab, call_put_ratio, total_calls, total_puts, sentiment,
                   monthly_ratios, options_data_with_greeks, g_out>>

\* call_put_ratio, total_calls, total_puts = calculate_call_put_ratio(options_data)
CalculateCallPutRatio ==
    /\ pc = "calculate_call_put_ratio"
    /\ \E res \in {calculate_call_put_ratio(options_data)} :
           /\ call_put_ratio' = res.ratio
           /\ total_calls' = res.total_calls
           /\ total_puts' = res.total_puts
    /\ pc' = "sentiment"
    /\ UNCHANGED <<inputs, rss, surface_tab, error, options_data, last_price, sentiment, monthly_ratios,
                   options_data_with_greeks, g_out>>

\* the sentiment branch of the Market Sentiment tab
DetermineSentiment ==
    /\ pc = "sentiment"
    /\ sentiment' = Sentiment(call_put_ratio)
    /\ pc' = "calculate_monthly_call_put_ratios"
    /\ UNCHANGED <<inputs, rss, surface_tab, error, options_data, last_price, call_put_ratio, total_calls,
                   total_puts, monthly_ratios, options_data_with_greeks, g_out>>

\* monthly_ratios = calculate_monthly_call_put_ratios(options_data)
CalculateMonthlyCallPutRatios ==
    /\ pc = "calculate_monthly_call_put_ratios"
    /\ \E res \in {calculate_monthly_call_put_ratios(options_data)} :
           /\ options_data' = res.table
           /\ IF res.err = "none"
              THEN /\ monthly_ratios' = res.ratios
                   /\ pc' = "add_greeks_to_options_data"
                   /\ error' = error
              ELSE /\ error' = Raised("calculate_monthly_call_put_ratios", res.err)
                   /\ pc' = "raised"
                   /\ monthly_ratios' = monthly_ratios
    /\ UNCHANGED <<inputs, rss, surface_tab, last_price, call_put_ratio, total_calls, total_puts, sentiment,
                   options_data_with_greeks, g_out>>

\* options_data_with_greeks = add_greeks_to_options_data(options_data, last_price,
\* risk_free_rate)
AddGreeksToOptionsData ==
    /\ pc = "add_greeks_to_options_data"
    /\ \E res \in {add_greeks_to_options_data(options_data, last_price, risk_free_rate)} :
           IF res.err = "none"
           THEN /\ options_data_with_greeks' = res.table
                /\ pc' = "calculate_leverage"
                /\ error' = error
           ELSE /\ error' = Raised("add_greeks_to_options_data", res.err)
                /\ pc' = "raised"
                /\ options_data_with_greeks' = options_data_with_greeks
    /\ UNCHANGED <<inputs, rss, surface_tab, options_data, last_price, call_put_ratio, total_calls,
                   total_puts, sentiment, monthly_ratios, g_out>>

\* options_data_with_greeks = calculate_leverage(options_data_with_greeks, last_price)
CalculateLeverage ==
    /\ pc = "calculate_leverage"
    /\ \E res \in {calculate_leverage(options_data_with_greeks, last_price)} :
           /\ options_data_with_greeks' = res.table
           /\ IF res.err = "none"
              THEN pc' = "volatility_surface" /\ error' = error
              ELSE pc' = "raised" /\ error' = Raised("calculate_leverage", res.err)
    /\ UNCHANGED <<inputs, rss, surface_tab, options_data, last_price, call_put_ratio, total_calls,
                   total_puts, sentiment, monthly_ratios, g_out>>

\* the widgets and the two filters of the Volatility Surface tab.  The tab is
\* followed only where the step of the strike sliders is positive.
FilterForSurface ==
    /\ pc = "volatility_surface"
    /\ SliderStep(last_price) > 0
    /\ \E typed \in MinVolumes :
           /\ min_volume' = typed
           /\ filtered_data_calls' = Filtered(options_data, "Call", typed, last_price)
           /\ filtered_data_puts' = Filtered(options_data, "Put", typed, last_price)
    /\ pc' = "call_surface"
    /\ UNCHANGED <<inputs, rss, error, options_data, last_price, call_put_ratio, total_calls,
                   total_puts, sentiment, monthly_ratios, options_data_with_greeks,
                   g_out, fig_1, fig_2>>

\* if not filtered_data_calls.empty:
\*     fig_1 = compute_volatility_surface_plotly(filtered_data_calls, last_price)
CallSurface ==
    /\ pc = "call_surface"
    /\ IF filtered_data_calls = NoTable
       THEN pc' = "put_surface" /\ UNCHANGED <<fig_1, error>>
       ELSE \E res \in {compute_volatility_surface_plotly(filtered_data_calls,
                                                          last_price)} :
                IF res.err = "none"
                THEN fig_1' = res.fig /\ pc' = "put_surface" /\ error' = error
                ELSE /\ error' = Raised("compute_volatility_surface_plotly", res.err)
                     /\ pc' = "raised"
                     /\ fig_1' = fig_1
    /\ UNCHANGED <<inputs, rss, options_data, last_price, call_put_ratio, total_calls,
                   total_puts, sentiment, monthly_ratios, options_data_with_greeks,
                   g_out, min_volume, filtered_data_calls, filtered_data_puts, fig_2>>

\* if not filtered_data_puts.empty:
\*     fig_2 = compute_volatility_surface_plotly(filtered_data_puts, last_price)
PutSurface ==
    /\ pc = "put_surface"
    /\ IF filtered_data_puts = NoTable
       THEN pc' = "done" /\ UNCHANGED <<fig_2, error>>
       ELSE \E res \in {compute_volatility_surface_plotly(filtered_data_puts,
                                                          last_price)} :
                IF res.err = "none"
                THEN fig_2' = res.fig /\ pc' = "done" /\ error' = error
                ELSE /\ error' = Raised("compute_volatility_surface_plotly", res.err)
                     /\ pc' = "raised"
                     /\ fig_2' = fig_2
    /\ UNCHANGED <<inputs, rss, options_data, last_price, call_put_ratio, total_calls,
                   total_puts, sentiment, monthly_ratios, options_data_with_greeks,
                   g_out, min_volume, filtered_data_calls, filtered_data_puts, fig_1>>

Next ==
    \/ GetOptionsData
    \/ CalculateCallPutRatio
    \/ DetermineSentiment
    \/ CalculateMonthlyCallPutRatios
    \/ AddGreeksToOptionsData
    \/ CalculateLeverage
    \/ FilterForSurface
    \/ CallSurface
    \/ PutSurface

Spec == Init /\ [][Next]_vars

----------------------------------------------------------------------------
(* compute_greeks called on its own, on arguments of either sign.  K = 0 is *)
(* left out: S / K is then inf on a float64 and ZeroDivisionError on a      *)
(* Python float.                                                           *)

GreeksArguments ==
    [S : {Num(0), Num(100)},
     K : {Num(-100), Num(50), Num(100), Num(110)},
     T : {Frac(-1, 365), Num(0), Frac(30, 365), Num(1)},
     r : {Frac(-1, 100), Num(0), Frac(4, 100)},
     sigma : {Frac(-1, 5), Num(0), Frac(1, 5), Frac(1, 2)},
     option_type : {"call", "put"}]

InitGreeks ==
    /\ g_args \in GreeksArguments
    /\ g_out = <<>>
    /\ pc = "compute_greeks"
    /\ ticker = <<>>
    /\ now = Noon
    /\ chain = <<>>
    /\ price_src = Quoted
    /\ risk_free_rate = g_args.r
    /\ error = NoError
    /\ options_data = NoTable
    /\ last_price = NaN
    /\ call_put_ratio = NaN
    /\ total_calls = NaN
    /\ total_puts = NaN
    /\ sentiment = "none"
    /\ monthly_ratios = <<>>
    /\ options_data_with_greeks = NoTable
    /\ min_volume = NaN
    /\ filtered_data_calls = NoTable
    /\ filtered_data_puts = NoTable
    /\ fig_1 = <<>>
    /\ fig_2 = <<>>
    /\ feed_src = <<>>
    /\ pending = <<>>
    /\ all_feeds = <<>>

\* g_out = compute_greeks(S, K, T, r, sigma, option_type)
ComputeGreeks ==
    /\ pc = "compute_greeks"
    /\ g_out' = compute_greeks(g_args.S, g_args.K, g_args.T, g_args.r, g_args.sigma,
                               g_args.option_type)
    /\ pc' = "returned"
    /\ UNCHANGED <<inputs, rss, surface_tab, error, options_data, last_price, call_put_ratio, total_calls,
                   total_puts, sentiment, monthly_ratios, options_data_with_greeks>>

NextGreeks == ComputeGreeks

SpecGreeks == InitGreeks /\ [][NextGreeks]_vars

----------------------------------------------------------------------------
(* the four operations called in any order on a table get_options_data has *)
(* returned; an exception is caught and the calls go on                    *)

FrameRuns == TimeRuns \cup LeverageRuns \cup ExampleRuns

InitFrame ==
    /\ \E run \in FrameRuns :
          /\ ticker = run.ticker
          /\ now = run.now
          /\ chain = run.chain
          /\ price_src = run.price_src
          /\ \E res \in {get_options_data(run.ticker, run.chain, run.now, run.price_src)} :
                 /\ res.err = "none"
                 /\ options_data = res.table
                 /\ last_price = res.price
    /\ risk_free_rate \in Rates
    /\ pc = "any_order"
    /\ error = NoError
    /\ call_put_ratio = NaN
    /\ total_calls = NaN
    /\ total_puts = NaN
    /\ sentiment = "none"
    /\ monthly_ratios = <<>>
    /\ options_data_with_greeks = NoTable
    /\ g_args = <<>>
    /\ g_out = <<>>
    /\ min_volume = NaN
    /\ filtered_data_calls = NoTable
    /\ filtered_data_puts = NoTable
    /\ fig_1 = <<>>
    /\ fig_2 = <<>>
    /\ feed_src = <<>>
    /\ pending = <<>>
    /\ all_feeds = <<>>

\* calculate_call_put_ratio(options_data)
AnyCallPutRatio ==
    /\ pc = "any_order"
    /\ \E res \in {calculate_call_put_ratio(options_data)} :
           /\ call_put_ratio' = res.ratio
           /\ total_calls' = res.total_calls
           /\ total_puts' = res.total_puts
    /\ UNCHANGED <<inputs, rss, surface_tab, pc, error, options_data, last_price, sentiment,
                   monthly_ratios, options_data_with_greeks, g_out>>

\* calculate_monthly_call_put_ratios(options_data)
AnyMonthlyCallPutRatios ==
    /\ pc = "any_order"
    /\ \E res \in {calculate_monthly_call_put_ratios(options_data)} :
           /\ options_data' = res.table
           /\ IF res.err = "none"
              THEN monthly_ratios' = res.ratios /\ error' = error
              ELSE /\ error' = Raised("calculate_monthly_call_put_ratios", res.err)
                   /\ monthly_ratios' = monthly_ratios
    /\ UNCHANGED <<inputs, rss, surface_tab, pc, last_price, call_put_ratio, total_calls,
                   total_puts, sentiment, options_data_with_greeks, g_out>>

\* add_greeks_to_options_data(options_data, last_price, risk_free_rate)
AnyAddGreeks ==
    /\ pc = "any_order"
    /\ \E res \in {add_greeks_to_options_data(options_data, last_price, risk_free_rate)} :
           IF res.err = "none"
           THEN options_data_with_greeks' = res.table /\ error' = error
           ELSE /\ error' = Raised("add_greeks_to_options_data", res.err)
                /\ options_data_with_greeks' = options_data_with_greeks
    /\ UNCHANGED <<inputs, rss, surface_tab, pc, options_data, last_price, call_put_ratio,
                   total_calls, total_puts, sentiment, monthly_ratios, g_out>>

\* calculate_leverage(options_data_with_greeks, last_price)
AnyLeverageOfGreeks ==
    /\ pc = "any_order"
    /\ \E res \in {calculate_leverage(options_data_with_greeks, last_price)} :
           /\ options_data_with_greeks' = res.table
           /\ error' = IF res.err = "none" THEN error
                       ELSE Raised("calculate_leverage", res.err)
    /\ UNCHANGED <<inputs, rss, surface_tab, pc, options_data, last_price, call_put_ratio,
                   total_calls, total_puts, sentiment, monthly_ratios, g_out>>

\* calculate_leverage(options_data, last_price): the table has no delta column
AnyLeverageOfTable ==
    /\ pc = "any_order"
    /\ \E res \in {calculate_leverage(options_data, last_price)} :
           /\ options_data' = res.table
           /\ error' = IF res.err = "none" THEN error
                       ELSE Raised("calculate_leverage", res.err)
    /\ UNCHANGED <<inputs, rss, surface_tab, pc, last_price, call_put_ratio, total_calls,
                   total_puts, sentiment, monthly_ratios, options_data_with_greeks,
                   g_out>>

NextFrame ==
    \/ AnyCallPutRatio
    \/ AnyMonthlyCallPutRatios
    \/ AnyAddGreeks
    \/ AnyLeverageOfGreeks
    \/ AnyLeverageOfTable

SpecFrame == InitFrame /\ [][NextFrame]_vars

----------------------------------------------------------------------------
(* utils/rss_agregator.py: the feed parsers and FeedManager.fetch_all_feeds *)

\* DataProvider: the value of each member
DataProvider ==
    [CNBC |-> "CNBC", MARKETWATCH |-> "MarketWatch", NYT |-> "New York Times",
     COINTELEGRAPH |-> "Coin Telegraph", BLOCKCHAINNEWS |-> "Blockchain News",
     SEEKINGALPHA |-> "Seeking Alpha", SEC |-> "US Securities Exchange Commision"]

\* feeds: the providers in the order of the dict, each with its categories
\* (a url is named by its provider and category)
feeds ==
    <<<<"SEC",
       <<"Press Release">>>>,
      <<"CNBC",
       <<"Top News", "World News", "US News", "Asian News", "Finance",
         "Investing", "Financial Advisors", "Market Insider",
         "Charting Asia", "Earnings", "Economy", "Autos", "Real Estate",
         "Energy">>>>,
      <<"MARKETWATCH",
       <<"Top Stories", "Market Pulse", "Stock to Watch", "Automobile">>>>,
      <<"NYT",
       <<"World News", "US News", "Asian News", "European News",
         "Economy", "Buisness", "Real Estate", "Most Shared",
         "Most Viewed">>>>,
      <<"COINTELEGRAPH",
       <<"Altcoin", "Bitcoin", "Blockchain", "Ethereum", "Litecoin",
         "Monero", "Regulation">>>>,
      <<"BLOCKCHAINNEWS",
       <<"Bitcoin", "Analysis", "Interviews">>>>,
      <<"SEEKINGALPHA",
       <<"Apple", "Tesla", "General Electric Compagny", "Latest Analysis",
         "Currencies", "Financials", "IPO Analysis", "Long Ideas", "ETFs",
         "Healthcare", "Utilities", "Most Popular">>>>>>

\* the source attribute of the BaseFeedParser subclasses
ParserSource ==
    [CNBCFeedParser |-> "CNBC", MarketWatchFeedParser |-> "MARKETWATCH",
     NewYorkTimesFeedParser |-> "NYT", CoinTelegraphFeedParser |-> "COINTELEGRAPH",
     BlockChainNewsFeedParser |-> "COINTELEGRAPH",
     SeekingAlphaFeedParser |-> "COINTELEGRAPH", SECFeedParser |-> "SEC"]

\* FeedManager.parsers
parsers ==
    [CNBC |-> "CNBCFeedParser", MARKETWATCH |-> "MarketWatchFeedParser",
     NYT |-> "NewYorkTimesFeedParser", COINTELEGRAPH |-> "CoinTelegraphFeedParser",
     BLOCKCHAINNEWS |-> "BlockChainNewsFeedParser",
     SEEKINGALPHA |-> "SeekingAlphaFeedParser", SEC |-> "SECFeedParser"]

\* clean_html on a text given as its pieces: tags are removed, entities decoded
clean_html(raw_html) ==
    LET kept == SelectSeq(raw_html, LAMBDA piece : piece.kind # "tag")
    IN  [i \in 1..Len(kept) |->
            IF kept[i].kind = "entity" THEN [kind |-> "text", s |-> "&"] ELSE kept[i]]

None == "None"

\* the content of an entry: its summary, else its description, else None,
\* which the empty text stands for (both are false in 'if content')
ContentOf(entry) ==
    IF "summary" \in DOMAIN entry THEN entry.summary
    ELSE IF "description" \in DOMAIN entry THEN entry.description
    ELSE <<>>

\* BaseFeedParser.parse_feed of an instance of the class parser on the entries
\* of its url
parse_feed(parser, entries) ==
    [i \in 1..Len(entries) |->
        [source |-> DataProvider[ParserSource[parser]],
         title |-> IF "title" \in DOMAIN entries[i] THEN entries[i].title ELSE None,
         link |-> IF "link" \in DOMAIN entries[i] THEN entries[i].link ELSE None,
         date |-> IF "published" \in DOMAIN entries[i] THEN entries[i].published
                  ELSE None]
        @@ (IF ContentOf(entries[i]) # <<>>
            THEN [summary |-> clean_html(ContentOf(entries[i]))]
            ELSE <<>>)]

MaxEntries == 2

Html == <<[kind |-> "tag", s |-> "<p>"], [kind |-> "text", s |-> "a"],
         [kind |-> "entity", s |-> "&amp;"], [kind |-> "tag", s |-> "</p>"]>>

\* entries as feedparser gives them: with summary, with description only,
\* with an empty summary, with a link alone
Entries ==
    {[title |-> "t", link |-> "l", published |-> "d", summary |-> Html],
     [title |-> "t", link |-> "l", published |-> "d", description |-> Html],
     [title |-> "t", link |-> "l", summary |-> <<>>],
     [link |-> "l"]}

RECURSIVE Pairs(_)
\* the (source, category) pairs in the order the two loops visit them
Pairs(config) ==
    IF config = <<>> THEN <<>>
    ELSE [i \in 1..Len(Head(config)[2]) |-> <<Head(config)[1], Head(config)[2][i]>>]
         \o Pairs(Tail(config))

InitFeeds ==
    /\ feed_src \in SeqsUpTo(Entries, MaxEntries)
    /\ pending = Pairs(feeds)
    /\ all_feeds = <<>>
    /\ pc = "fetch_all_feeds"
    /\ ticker = <<>>
    /\ now = Noon
    /\ chain = <<>>
    /\ price_src = Quoted
    /\ risk_free_rate \in Rates
    /\ error = NoError
    /\ options_data = NoTable
    /\ last_price = NaN
    /\ call_put_ratio = NaN
    /\ total_calls = NaN
    /\ total_puts = NaN
    /\ sentiment = "none"
    /\ monthly_ratios = <<>>
    /\ options_data_with_greeks = NoTable
    /\ g_args = <<>>
    /\ g_out = <<>>
    /\ min_volume = NaN
    /\ filtered_data_calls = NoTable
    /\ filtered_data_puts = NoTable
    /\ fig_1 = <<>>
    /\ fig_2 = <<>>

\* one turn of the inner loop: parser = self.parsers[source](url);
\* all_feeds[source][category] = parser.parse_feed()
ParseNextFeed ==
    /\ pc = "fetch_all_feeds"
    /\ pending # <<>>
    /\ all_feeds' = all_feeds
                    @@ (Head(pending) :> parse_feed(parsers[Head(pending)[1]], feed_src))
    /\ pending' = Tail(pending)
    /\ UNCHANGED <<inputs, surface_tab, feed_src, pc, error, options_data, last_price,
                   call_put_ratio, total_calls, total_puts, sentiment, monthly_ratios,
                   options_data_with_greeks, g_out>>

\* return all_feeds
ReturnAllFeeds ==
    /\ pc = "fetch_all_feeds"
    /\ pending = <<>>
    /\ pc' = "feeds_returned"
    /\ UNCHANGED <<inputs, surface_tab, rss, error, options_data, last_price,
                   call_put_ratio, total_calls, total_puts, sentiment, monthly_ratios,
                   options_data_with_greeks, g_out>>

NextFeeds == ParseNextFeed \/ ReturnAllFeeds

SpecFeeds == InitFeeds /\ [][NextFeeds]_vars

----------------------------------------------------------------------------
(* Properties of get_options_data *)

\* get_options_data has returned a table to the script
TableReturned == pc # "get_options_data" /\ error.at # "get_options_data"

\* the character of the identifier x that follows the ticker and the six
\* digits of the date
TypeCharAt(x, tk) == x[Len(tk) + 7]

\* C1: the table get_options_data returns is ordered ascending by strike,
\* then by Time_to_Expiration, then by Type with Call ahead of Put.
C1_SortedByStrikeTimeType ==
    TableReturned =>
        \A i \in 1..(Len(options_data) - 1) :
            LET a == options_data[i]
                b == options_data[i + 1]
            IN  \/ a.strike < b.strike
                \/ /\ a.strike = b.strike
                   /\ \/ FLess(a.Time_to_Expiration, b.Time_to_Expiration)
                      \/ /\ a.Time_to_Expiration = b.Time_to_Expiration
                         /\ ~(a.Type = "Put" /\ b.Type = "Call")

\* C1 witness: a table is returned for a chain whose concatenated records had
\* a strike above the next one and a Put ahead of a Call with the same strike
\* and expiration.
C1_UnsortedChainFetched ==
    /\ TableReturned
    /\ Len(options_data) = MaxRecords
    /\ \E i \in 1..(Len(AllOptions(chain)) - 1) :
           AllOptions(chain)[i].strike > AllOptions(chain)[i + 1].strike
    /\ \E i, j \in 1..Len(AllOptions(chain)) :
           /\ i < j
           /\ AllOptions(chain)[i].strike = AllOptions(chain)[j].strike
           /\ AllOptions(chain)[i].Expiration = AllOptions(chain)[j].Expiration
           /\ TypeCharAt(AllOptions(chain)[i].contractSymbol, ticker) = "P"
           /\ TypeCharAt(AllOptions(chain)[j].contractSymbol, ticker) = "C"

\* every identifier of the chain carries C or P after the ticker and the date
WellFormedChain ==
    \A i \in 1..Len(AllOptions(chain)) :
        TypeCharAt(AllOptions(chain)[i].contractSymbol, ticker) \in {"C", "P"}

\* C2: for every ticker, the ones that contain C or P included, a
\* well-formed identifier is classified by the character after the ticker and
\* the date: Call for C, Put for P.
C2_ClassifiedForEveryTicker ==
    (pc # "get_options_data" /\ chain # <<>> /\ WellFormedChain) =>
        /\ TableReturned
        /\ \A i \in 1..Len(options_data) :
               options_data[i].Type =
                   IF TypeCharAt(options_data[i].contractSymbol, ticker) = "C"
                   THEN "Call" ELSE "Put"

\* C3: when an identifier carries neither C nor P at the type position, the
\* whole call fails and no table with a row of another Type is returned.
C3_MalformedTypeFailsCall ==
    /\ (pc # "get_options_data" /\ ~WellFormedChain) => error.at = "get_options_data"
    /\ TableReturned =>
           \A i \in 1..Len(options_data) : options_data[i].Type \in {"Call", "Put"}

\* C4: Time_to_Expiration is never below 0 for an expiration that is not
\* before today, whatever the hour of the evaluation.
C4_TimeToExpirationNotNegative ==
    TableReturned =>
        \A i \in 1..Len(options_data) :
            Ordinal(options_data[i].Expiration) >= Ordinal(now.date) =>
                ~FLess(options_data[i].Time_to_Expiration, Num(0))

\* C5: Time_to_Expiration is D / 365 for an expiration D calendar days after
\* today, whatever the hour of the evaluation: 30 / 365 for 30 days, and 0
\* only for an expiration today.
C5_TimeToExpirationIsCalendarDays ==
    TableReturned =>
        \A i \in 1..Len(options_data) :
            LET D == Ordinal(options_data[i].Expiration) - Ordinal(now.date)
            IN  /\ options_data[i].Time_to_Expiration = Frac(D, 365)
                /\ (options_data[i].Time_to_Expiration = Num(0)) <=> (D = 0)

----------------------------------------------------------------------------
(* Properties of compute_greeks *)

GreekNames == {"delta", "gamma", "theta", "vega", "rho"}

\* C6: compute_greeks answers S <= 0, K <= 0, T <= 0 or sigma <= 0 with a
\* domain error and never with a result that holds NaN or an infinity; so it
\* does for T = 0 and for sigma = 0.
C6_DomainErrorOutsidePreconditions ==
    (/\ pc = "returned"
     /\ \/ ~FGreater(g_args.S, Num(0))
        \/ ~FGreater(g_args.K, Num(0))
        \/ ~FGreater(g_args.T, Num(0))
        \/ ~FGreater(g_args.sigma, Num(0)))
        => /\ g_out.err # "none"
           /\ \A name \in GreekNames : g_out.err = "none" => IsFin(g_out[name])

----------------------------------------------------------------------------
(* Properties of the ratios and of the sentiment label *)

\* calculate_call_put_ratio has returned to the script
RatioReturned == TableReturned /\ pc # "calculate_call_put_ratio"

RECURSIVE VolumeOver(_, _)
\* the whole volume of the rows of options_data whose indices are in idx
VolumeOver(rows, idx) ==
    IF idx = {} THEN 0
    ELSE LET i == CHOOSE j \in idx : TRUE
         IN  rows[i].volume.n + VolumeOver(rows, idx \ {i})

\* the whole volume of the rows of Type t that get_options_data returned
VolumeOfType(t) ==
    VolumeOver(options_data, {i \in 1..Len(options_data) : options_data[i].Type = t})

\* C7: total_calls and total_puts are the volume summed over the Call rows and
\* over the Put rows, the ratio is total_calls / total_puts when total_puts
\* is above 0 (100 calls and 50 puts give 2), and with total_puts = 0 (300
\* calls and 0 puts) the call returns the infinite sentinel and does not raise.
C7_RatioOfTotals ==
    RatioReturned =>
        /\ error.at # "calculate_call_put_ratio"
        /\ total_calls = Num(VolumeOfType("Call"))
        /\ total_puts = Num(VolumeOfType("Put"))
        /\ IF VolumeOfType("Put") > 0
           THEN /\ IsFin(call_put_ratio)
                /\ call_put_ratio.n * VolumeOfType("Put")
                       = call_put_ratio.d * VolumeOfType("Call")
           ELSE call_put_ratio = Inf(1)
        /\ (VolumeOfType("Call") = 100 /\ VolumeOfType("Put") = 50)
               => call_put_ratio = Num(2)
        /\ (VolumeOfType("Call") = 300 /\ VolumeOfType("Put") = 0)
               => call_put_ratio = Inf(1)

\* C7 witness: the ratio of a table with 300 calls and 0 puts has been taken.
C7_ThreeHundredCallsNoPuts ==
    /\ RatioReturned
    /\ total_calls = Num(300)
    /\ total_puts = Num(0)
    /\ call_put_ratio = Inf(1)

\* calculate_monthly_call_put_ratios has returned to the script
MonthlyReturned ==
    /\ RatioReturned
    /\ pc \notin {"sentiment", "calculate_monthly_call_put_ratios"}
    /\ error.at # "calculate_monthly_call_put_ratios"

\* the rows of the month mo
RowsOfMonth(mo) == SelectSeq(options_data, LAMBDA row : MonthOf(row.Expiration) = mo)

\* C8: a month whose put volume is zero, with put rows or without, with call
\* volume or without, gets the ratio calculate_call_put_ratio returns for the
\* same totals.
C8_MonthlyZeroPutsAsAggregate ==
    MonthlyReturned =>
        \A i \in 1..Len(monthly_ratios) :
            LET aggregate == calculate_call_put_ratio(RowsOfMonth(monthly_ratios[i].Month))
            IN  aggregate.total_puts = Num(0)
                    => monthly_ratios[i].ratio = aggregate.ratio

\* the sentiment branch has been taken
SentimentDetermined == RatioReturned /\ pc # "sentiment"

\* C9: the label is Bullish exactly for a ratio above 1.2, Bearish exactly for
\* a ratio below 0.8 and Neutral otherwise, 0.8 and 1.2 included; call volume
\* 10 and put volume 25 give the ratio 0.4 and the label Bearish.
C9_SentimentThresholds ==
    SentimentDetermined =>
        /\ sentiment \in {"Bullish", "Bearish", "Neutral"}
        /\ sentiment = "Bullish"
               <=> \/ call_put_ratio = Inf(1)
                   \/ IsFin(call_put_ratio) /\ 10 * call_put_ratio.n > 12 * call_put_ratio.d
        /\ sentiment = "Bearish"
               <=> IsFin(call_put_ratio) /\ 10 * call_put_ratio.n < 8 * call_put_ratio.d
        /\ call_put_ratio \in {Frac(8, 10), Frac(12, 10)} => sentiment = "Neutral"
        /\ (total_calls = Num(10) /\ total_puts = Num(25))
               => call_put_ratio = Frac(4, 10) /\ sentiment = "Bearish"

\* C9 witness: the label of the four-contract scenario has been determined.
C9_ScenarioLabelled ==
    /\ SentimentDetermined
    /\ chain = Scenario
    /\ total_calls = Num(10)
    /\ total_puts = Num(25)
    /\ sentiment = "Bearish"

\* C10: without expirations or without records get_options_data returns an
\* empty table, and calculate_call_put_ratio, calculate_monthly_call_put_ratios
\* and add_greeks_to_options_data return on that table; none of them raises.
C10_EmptyChainNeverRaises ==
    AllOptions(chain) = <<>> =>
        /\ error.at \notin {"get_options_data", "calculate_call_put_ratio",
                            "calculate_monthly_call_put_ratios",
                            "add_greeks_to_options_data"}
        /\ TableReturned => options_data = NoTable

----------------------------------------------------------------------------
(* Properties of add_greeks_to_options_data and calculate_leverage *)

\* add_greeks_to_options_data has returned to the script
GreeksAdded ==
    /\ MonthlyReturned
    /\ pc # "add_greeks_to_options_data"
    /\ error.at # "add_greeks_to_options_data"

\* C11: add_greeks_to_options_data returns as many rows as it was given, and
\* the Greeks of row i are those of row i's strike, Time to Expiration,
\* impliedVolatility and Type under the one risk-free rate, whatever the index
\* labels of the rows (stated of the tables at its return).
C11_GreeksPairedByPosition ==
    (GreeksAdded /\ pc = "calculate_leverage") =>
        /\ Len(options_data_with_greeks) = Len(options_data)
        /\ \A i \in 1..Len(options_data) :
               \E greeks \in {compute_greeks(last_price, Num(options_data[i].strike),
                                             options_data[i].Time_to_Expiration,
                                             risk_free_rate,
                                             options_data[i].impliedVolatility,
                                             IF options_data[i].Type = "Call"
                                             THEN "call" ELSE "put")} :
                   /\ options_data_with_greeks[i].contractSymbol
                          = options_data[i].contractSymbol
                   /\ \A name \in GreekNames :
                          options_data_with_greeks[i][name] = greeks[name]

\* C11 witness: Greeks were added to a full table in which two rows carry the
\* same index label and get different deltas.
C11_DuplicateLabelsEnriched ==
    /\ GreeksAdded
    /\ Len(options_data) = MaxRecords
    /\ \E i, j \in 1..Len(options_data) :
           /\ i < j
           /\ options_data[i].index = options_data[j].index
           /\ options_data_with_greeks[i].delta # options_data_with_greeks[j].delta

\* calculate_leverage has returned to the script
LeverageReturned ==
    GreeksAdded /\ pc # "calculate_leverage" /\ error.at # "calculate_leverage"

\* C12: the Leverage of a row is delta * stock_price / lastPrice when lastPrice
\* is not 0; for lastPrice = 0 the call fails or leaves an undefined value in
\* the row, never an infinity.
C12_LeverageNeverInfinite ==
    LeverageReturned =>
        \A i \in 1..Len(options_data_with_greeks) :
            LET row == options_data_with_greeks[i]
            IN  IF row.lastPrice # Num(0)
                THEN row.Leverage = FDiv(FMul(row.delta, last_price), row.lastPrice)
                ELSE ~IsInf(row.Leverage)

----------------------------------------------------------------------------
(* Properties of the monthly ratios and of the volume column *)

\* the call of calculate_monthly_call_put_ratios has ended, returning or raising
MonthlyCalled ==
    RatioReturned /\ pc \notin {"sentiment", "calculate_monthly_call_put_ratios"}

\* C13: calculate_monthly_call_put_ratios emits one (month, ratio) entry for
\* each calendar month of Expiration in the table, in chronological order,
\* whatever the order of the rows.
C13_OneEntryPerMonthInOrder ==
    MonthlyCalled =>
        /\ error.at # "calculate_monthly_call_put_ratios"
        /\ {monthly_ratios[i].Month : i \in 1..Len(monthly_ratios)}
               = {MonthOf(options_data[i].Expiration) : i \in 1..Len(options_data)}
        /\ \A i \in 1..(Len(monthly_ratios) - 1) :
               \/ monthly_ratios[i].Month.y < monthly_ratios[i + 1].Month.y
               \/ /\ monthly_ratios[i].Month.y = monthly_ratios[i + 1].Month.y
                  /\ monthly_ratios[i].Month.m < monthly_ratios[i + 1].Month.m

\* the volume the table is to hold for the input volume v
Normalised(v) == IF v = NaN THEN Num(0) ELSE v

\* C14: the volume of every row get_options_data returns is a number: 0 for a
\* record without volume, the given volume for any other record.
C14_VolumeNeverAbsent ==
    TableReturned =>
        /\ \A i \in 1..Len(options_data) : IsFin(options_data[i].volume)
        /\ Len(options_data) = Len(AllOptions(chain))
        /\ \A p \in {<<options_data[i].contractSymbol, options_data[i].volume>> :
                        i \in 1..Len(options_data)} :
               Cardinality({i \in 1..Len(options_data) :
                               <<options_data[i].contractSymbol, options_data[i].volume>> = p})
                   = Cardinality({j \in 1..Len(AllOptions(chain)) :
                                     <<AllOptions(chain)[j].contractSymbol,
                                       Normalised(AllOptions(chain)[j].volume)>> = p})

\* C14 witness: the table returned for the four-contract scenario, whose
\* strike-110 call has no volume.
C14_ScenarioVolumeFilled ==
    /\ TableReturned
    /\ chain = Scenario
    /\ \E j \in 1..Len(AllOptions(chain)) : AllOptions(chain)[j].volume = NaN
    /\ \E i \in 1..Len(options_data) :
           options_data[i].strike = 110 /\ options_data[i].Type = "Call"
           /\ options_data[i].volume = Num(0)
    /\ \E i \in 1..Len(options_data) : options_data[i].volume = Num(20)

----------------------------------------------------------------------------
(* Delta parity of compute_greeks *)

\* S, K, T and sigma of the call are all above 0
InDomain ==
    /\ FGreater(g_args.S, Num(0))
    /\ FGreater(g_args.K, Num(0))
    /\ FGreater(g_args.T, Num(0))
    /\ FGreater(g_args.sigma, Num(0))

\* the delta compute_greeks gives the same arguments under the option_type t
DeltaAs(t) ==
    compute_greeks(g_args.S, g_args.K, g_args.T, g_args.r, g_args.sigma, t).delta

\* C15: for S, K, T, sigma above 0 and any r, the call delta less the put
\* delta of the same (S, K, T, r, sigma) is 1.
C15_DeltaParity ==
    (pc = "returned" /\ InDomain) =>
        IF g_args.option_type = "call"
        THEN FSub(g_out.delta, DeltaAs("put")) = Num(1)
        ELSE FSub(DeltaAs("call"), g_out.delta) = Num(1)

\* C15 witness: a put has been valued in the domain with a delta strictly
\* between -1 and 0, under a negative rate.
C15_PutValuedInDomain ==
    /\ pc = "returned"
    /\ InDomain
    /\ g_args.option_type = "put"
    /\ FLess(g_args.r, Num(0))
    /\ FLess(Num(-1), g_out.delta)
    /\ FLess(g_out.delta, Num(0))

----------------------------------------------------------------------------
(* Properties of the volatility surface *)

\* the rows are there and all lie on one (Time to Expiration, strike) point
OnePoint(rows) ==
    /\ rows # NoTable
    /\ \A i, j \in 1..Len(rows) :
           /\ rows[i].Time_to_Expiration = rows[j].Time_to_Expiration
           /\ rows[i].strike = rows[j].strike

\* the table the failed call of compute_volatility_surface_plotly was given
SurfaceInput ==
    IF filtered_data_calls # NoTable /\ fig_1 = <<>>
    THEN filtered_data_calls ELSE filtered_data_puts

\* C16: compute_volatility_surface_plotly, which the tab calls on any filtered
\* table that is not empty, does not raise on a table whose rows all lie on
\* one (Time to Expiration, strike) point.
C16_OnePointSurfaceReturns ==
    error.at = "compute_volatility_surface_plotly" => ~OnePoint(SurfaceInput)

----------------------------------------------------------------------------
(* Frame of the operations on a table of get_options_data *)

CoreFields == {"strike", "Time_to_Expiration", "Type", "volume", "Expiration"}

DerivedFields == {"Month", "Leverage"} \cup GreekNames

\* the table new has the rows of old with their core fields, and no column
\* but derived ones more
Kept(old, new) ==
    /\ Len(new) = Len(old)
    /\ \A i \in 1..Len(old) :
           /\ \A f \in CoreFields : new[i][f] = old[i][f]
           /\ (DOMAIN new[i]) \ (DOMAIN old[i]) \subseteq DerivedFields

\* C17: whatever the order in which calculate_call_put_ratio,
\* calculate_monthly_call_put_ratios, add_greeks_to_options_data and
\* calculate_leverage are called on a table of get_options_data, every call
\* keeps strike, Time to Expiration, Type, volume and Expiration of every row,
\* in the table and in the table with Greeks, and adds derived columns only.
C17_OperationsKeepCoreFields ==
    [][pc = "any_order" =>
          /\ Kept(options_data, options_data')
          /\ \A i \in 1..Len(options_data) :
                 DOMAIN options_data[i] \subseteq DOMAIN options_data'[i]
          /\ options_data_with_greeks' # NoTable => Kept(options_data, options_data_with_greeks')
      ]_vars

\* C17 witness: the Greeks and the leverage were added before the months, and
\* the table of three rows then got its Month column.
C17_GreeksBeforeMonths ==
    /\ pc = "any_order"
    /\ Len(options_data) = 3
    /\ "Month" \in DOMAIN options_data[1]
    /\ options_data_with_greeks # NoTable
    /\ "Leverage" \in DOMAIN options_data_with_greeks[1]
    /\ "Month" \notin DOMAIN options_data_with_greeks[1]
    /\ call_put_ratio # NaN

----------------------------------------------------------------------------
(* Properties of the feed parsers *)

\* C18: every entry fetch_all_feeds returns under a provider of the feeds
\* configuration carries that provider's own name as its source.
C18_EntriesTaggedWithOwnProvider ==
    pc = "feeds_returned" =>
        \A i \in 1..Len(feeds) :
            \A j \in 1..Len(feeds[i][2]) :
                LET feed_data == all_feeds[<<feeds[i][1], feeds[i][2][j]>>]
                IN  \A k \in 1..Len(feed_data) :
                        feed_data[k].source = DataProvider[feeds[i][1]]

====
